---- MODULE Spec2Model ----
(***************************************************************************)
(* Model of the hurl request pipeline: the domain value objects (Url),     *)
(* RequestValidator and the three orchestration operations of              *)
(* HttpRequestService (send_request, send_with_retry, send_batch) over an  *)
(* abstract HttpClient transport.                                          *)
(*                                                                         *)
(* Strings are sequences of one-character strings, so that starts_with,    *)
(* URI parsing and URI formatting are computed rather than assumed.        *)
(***************************************************************************)
EXTENDS Integers, Sequences, FiniteSets, TLC

\* ------------------------------------------------------------------ bounds
\* largest max_retries argument explored
MaxRetries == 2
\* longest request list handed to send_batch
MaxBatch == 3

\* ----------------------------------------------------------------- strings
\* u8::to_ascii_lowercase, on the alphabet of the model
ToLower(c) ==
  CASE c = "H" -> "h"
    [] c = "T" -> "t"
    [] c = "P" -> "p"
    [] c = "S" -> "s"
    [] OTHER -> c

\* <[u8]>::eq_ignore_ascii_case
EqIgnoreCase(s, p) ==
  /\ Len(s) = Len(p)
  /\ \A k \in 1..Len(s) : ToLower(s[k]) = ToLower(p[k])

\* str::starts_with
StartsWith(s, p) ==
  /\ Len(s) >= Len(p)
  /\ SubSeq(s, 1, Len(p)) = p

\* the bytes of s from 0-based offset n on (Bytes::split_to(n) leaves these)
DropFirst(s, n) == SubSeq(s, n + 1, Len(s))

HttpPrefix == <<"h", "t", "t", "p", ":", "/", "/">>
HttpsPrefix == <<"h", "t", "t", "p", "s", ":", "/", "/">>
SchemeHttp == <<"h", "t", "t", "p">>
SchemeHttps == <<"h", "t", "t", "p", "s">>
SchemeSep == <<":", "/", "/">>

\* --------------------------------------------------- hyper::http::Uri model
\* Uri { scheme, authority, path_and_query }; an absent scheme, an empty
\* authority and PathAndQuery::empty() are the empty sequence.
MkUri(s, a, p) == [scheme |-> s, authority |-> a, path |-> p]

MkParsed(u) == [ok |-> TRUE, uri |-> u]
ParseError == [ok |-> FALSE, uri |-> MkUri(<<>>, <<>>, <<>>)]

\* Scheme2::parse, the scan for a non-standard scheme; k is the 1-based
\* position (the code's i is k - 1).  Yields the scheme length, or -1 when
\* the text has no scheme.
RECURSIVE ScanScheme(_, _)
ScanScheme(s, k) ==
  IF k > Len(s) THEN -1
  ELSE IF s[k] = ":" THEN
         IF Len(s) < k + 2 THEN -1
         ELSE IF SubSeq(s, k + 1, k + 2) # <<"/", "/">> THEN -1
         ELSE k - 1
  ELSE IF s[k] = "/" THEN -1
  ELSE ScanScheme(s, k + 1)

\* Scheme2::parse: [kind, len] with kind None | Http | Https | Other
SchemeParse(s) ==
  IF Len(s) >= 7 /\ EqIgnoreCase(SubSeq(s, 1, 7), HttpPrefix)
    THEN [kind |-> "Http", len |-> 4]
  ELSE IF Len(s) >= 8 /\ EqIgnoreCase(SubSeq(s, 1, 8), HttpsPrefix)
    THEN [kind |-> "Https", len |-> 5]
  ELSE IF Len(s) > 3 /\ ScanScheme(s, 1) >= 0
    THEN [kind |-> "Other", len |-> ScanScheme(s, 1)]
  ELSE [kind |-> "None", len |-> 0]

\* Authority::parse: the 0-based end of the authority (the first '/'), or -1
\* for InvalidAuthority (more than one ':').
RECURSIVE AuthorityScan(_, _, _)
AuthorityScan(s, k, colons) ==
  IF k > Len(s) \/ s[k] = "/" THEN (IF colons > 1 THEN -1 ELSE k - 1)
  ELSE AuthorityScan(s, k + 1, IF s[k] = ":" THEN colons + 1 ELSE colons)

AuthorityEnd(s) == AuthorityScan(s, 1, 0)

\* Uri::parse_full
ParseFull(s) ==
  LET sch == SchemeParse(s)
      rest == IF sch.kind = "None" THEN s ELSE DropFirst(s, sch.len + 3)
      scheme == CASE sch.kind = "Http" -> SchemeHttp
                  [] sch.kind = "Https" -> SchemeHttps
                  [] sch.kind = "Other" -> SubSeq(s, 1, sch.len)
                  [] OTHER -> <<>>
      aend == AuthorityEnd(rest)
  IN IF aend < 0 THEN ParseError
     ELSE IF sch.kind = "None" THEN
            IF aend # Len(rest) THEN ParseError
            ELSE MkParsed(MkUri(<<>>, rest, <<>>))
     ELSE IF aend = 0 THEN ParseError
     ELSE MkParsed(MkUri(scheme, SubSeq(rest, 1, aend), DropFirst(rest, aend)))

\* Uri::from_shared, reached through str::parse::<Uri>()
UriFromStr(s) ==
  IF Len(s) = 0 THEN ParseError
  ELSE IF Len(s) = 1 THEN
         IF s[1] = "/" THEN MkParsed(MkUri(<<>>, <<>>, <<"/">>))
         ELSE IF AuthorityEnd(s) < 0 THEN ParseError
         ELSE MkParsed(MkUri(<<>>, s, <<>>))
  ELSE IF s[1] = "/" THEN MkParsed(MkUri(<<>>, <<>>, s))
  ELSE ParseFull(s)

\* Uri::path: "/" stands in for an empty path of a URI that has a scheme
UriPath(u) ==
  IF u.path # <<>> \/ u.scheme # <<>>
    THEN (IF u.path = <<>> THEN <<"/">> ELSE u.path)
    ELSE <<>>

\* <Uri as Display>::fmt
UriToString(u) ==
  (IF u.scheme # <<>> THEN u.scheme \o SchemeSep ELSE <<>>)
    \o u.authority \o UriPath(u)

\* ------------------------------------------------------------- value objects
\* Url::new
UrlNew(raw) == UriFromStr(raw)

\* Url::as_str
UrlAsStr(url) == UriToString(url)

\* ------------------------------------------------------------------- inputs
\* raw URL texts given to Url::new: "", "/", "/a", "a", "aa", "http://a",
\* "https://a", "HTTP://a", "hTTps://a/p", "ftp://a", "httpp://a",
\* "http:/a", "http://", "https:a", "http://a/p"
RawUrls ==
  { <<>>,
    <<"/">>,
    <<"/", "a">>,
    <<"a">>,
    <<"a", "a">>,
    HttpPrefix \o <<"a">>,
    HttpsPrefix \o <<"a">>,
    <<"H", "T", "T", "P">> \o SchemeSep \o <<"a">>,
    <<"h", "T", "T", "p", "s">> \o SchemeSep \o <<"a", "/", "p">>,
    <<"f", "t", "p">> \o SchemeSep \o <<"a">>,
    <<"h", "t", "t", "p", "p">> \o SchemeSep \o <<"a">>,
    <<"h", "t", "t", "p", ":", "/", "a">>,
    HttpPrefix,
    <<"h", "t", "t", "p", "s", ":", "a">>,
    HttpPrefix \o <<"a", "/", "p">> }

\* Every Url the program can hold: the texts Url::new accepts, and the Uri
\* with no component at all, which the public tuple field Url(pub Uri)
\* admits (Uri::from_parts(Parts::default())) and whose string form is "".
EmptyUri == MkUri(<<>>, <<>>, <<>>)
Urls == { UrlNew(raw).uri : raw \in { r \in RawUrls : UrlNew(r).ok } } \cup { EmptyUri }

\* Method
Methods == { "Get", "Post", "Put", "Delete", "Patch", "Head", "Options" }

\* Option<JsonBody>: None, or Some(JsonBody(text)) with the text "{}"
NoBody == [some |-> FALSE, text |-> <<>>]
SomeBody(t) == [some |-> TRUE, text |-> t]
Bodies == { NoBody, SomeBody(<<"{", "}">>) }

\* Request.headers values explored by the service operations
HeaderLists == { <<>> }

\* Request { method, url, headers, body }
MkRequest(m, u, h, b) == [method |-> m, url |-> u, headers |-> h, body |-> b]
Requests == { MkRequest(m, u, h, b) : m \in Methods, u \in Urls, h \in HeaderLists, b \in Bodies }

HttpsA == UrlNew(HttpsPrefix \o <<"a">>).uri
HttpA == UrlNew(HttpPrefix \o <<"a">>).uri
FtpA == UrlNew(<<"f", "t", "p">> \o SchemeSep \o <<"a">>).uri

\* the requests send_batch lists are made of: two valid ones, one breaking
\* each validation rule, and one breaking both
BatchRequests ==
  { MkRequest("Get", HttpsA, <<>>, NoBody),
    MkRequest("Post", HttpA, <<>>, SomeBody(<<"{", "}">>)),
    MkRequest("Get", HttpsA, <<>>, SomeBody(<<"{", "}">>)),
    MkRequest("Post", FtpA, <<>>, NoBody),
    MkRequest("Get", EmptyUri, <<>>, SomeBody(<<"{", "}">>)) }

RECURSIVE SeqsUpTo(_, _)
SeqsUpTo(S, n) ==
  IF n = 0 THEN { <<>> }
  ELSE LET shorter == SeqsUpTo(S, n - 1)
       IN shorter \cup { Append(q, x) : q \in { r \in shorter : Len(r) = n - 1 }, x \in S }

BatchInputs == SeqsUpTo(BatchRequests, MaxBatch)

\* ---------------------------------------------------------- RequestValidator
Valid == [ok |-> TRUE, msg |-> ""]
Invalid(m) == [ok |-> FALSE, msg |-> m]

\* validate_url with the two prefix tests joined by "or"
validate_url_OrPrefixes(url) ==
  LET url_str == UrlAsStr(url)
  IN IF url_str = <<>> THEN Invalid("URL cannot be empty")
     ELSE IF ~StartsWith(url_str, HttpPrefix) \/ ~StartsWith(url_str, HttpsPrefix)
       THEN Invalid("URL must start with http:// or https://")
     ELSE Valid

\* RequestValidator::validate_url
validate_url(url) ==
  LET url_str == UrlAsStr(url)
  IN IF url_str = <<>> THEN Invalid("URL cannot be empty")
     ELSE IF ~StartsWith(url_str, HttpPrefix) /\ ~StartsWith(url_str, HttpsPrefix)
       THEN Invalid("URL must start with http:// or https://")
     ELSE Valid

\* the method/body rule without the test of the method: no body at all
validate_method_body_combination_AnyMethod(request) ==
  IF request.body.some
    THEN Invalid("GET requests should not have a body")
    ELSE Valid

\* RequestValidator::validate_method_body_combination
validate_method_body_combination(request) ==
  IF request.method = "Get" /\ request.body.some
    THEN Invalid("GET requests should not have a body")
    ELSE Valid

\* validate with the two rules in the other order
validate_MethodBodyFirst(request) ==
  IF ~validate_method_body_combination(request).ok
    THEN validate_method_body_combination(request)
  ELSE IF ~validate_url(request.url).ok THEN validate_url(request.url)
  ELSE Valid

\* RequestValidator::validate
validate(request) ==
  IF ~validate_url(request.url).ok THEN validate_url(request.url)
  ELSE IF ~validate_method_body_combination(request).ok
    THEN validate_method_body_combination(request)
  ELSE Valid

\* ------------------------------------------------------------ result values
\* anyhow::Error raised by the validator for the request at index i of the
\* operation's input (the index is a history tag, not part of the message)
ValidationError(m, i) == [kind |-> "validation", msg |-> m, ref |-> i]
\* anyhow::Error returned by the c-th transport send
TransportError(c) == [kind |-> "transport", msg |-> "send failed", ref |-> c]
\* Response { status, .. } returned by the c-th transport send, which carried
\* request i
Response(c, i, status) == [call |-> c, req |-> i, status |-> status]

OkResult(v) == [tag |-> "Ok", val |-> v]
ErrResult(e) == [tag |-> "Err", val |-> e]
NoResult == [tag |-> "None", val |-> <<>>]

\* --------------------------------------------------------------------- state
VARIABLES
  op,           \* the operation called: none, validate, send_request, send_with_retry, send_batch
  pc,           \* where the call stands: idle, request_await, retry_await, joining, done, unreachable
  requests,     \* the requests handed to the operation
  max_retries,  \* send_with_retry's max_retries argument
  attempt,      \* send_with_retry's loop variable
  range,        \* the iterator 0..=max_retries of send_with_retry's loop
  validations,  \* number of RequestValidator::validate runs
  sends,        \* one record per HttpClient::send call that began executing
  elems,        \* TryJoinAll's elems: one TryMaybeDone per batch member
  log,          \* call numbers in the order the sends returned
  result,       \* what the operation returned to its caller
  fx,           \* a call of to_hyper_request or of the RequestBuilder chain: its input and output
  calls,        \* the HyperHttpClient::send calls: one record per call
  conns,        \* the TCP connections opened, with their driver tasks
  diag          \* the connections whose driver task printed "Connection failed"

vars == <<op, pc, requests, max_retries, attempt, range, validations, sends, elems, log, result,
          fx, calls, conns, diag>>

\* what one poll of a transport send can yield once it is ready: a response
\* of any status (the service checks none), or an error
Statuses == { 200, 500 }
Outcomes == { [ok |-> TRUE, status |-> st] : st \in Statuses } \cup { [ok |-> FALSE, status |-> 0] }
Pending == [ok |-> FALSE, status |-> -1]
PollOutcomes == Outcomes \cup { Pending }

\* Result<Response> of the c-th HttpClient::send, which carried request i
SendResult(c, i, o) ==
  IF o.ok THEN OkResult(Response(c, i, o.status)) ELSE ErrResult(TransportError(c))

\* self.http_client.send(request) begins executing for request i
StartSend(s, i) == Append(s, [req |-> i, st |-> "inflight", out |-> NoResult])

\* the c-th send returns with outcome o
FinishSend(s, c, o) ==
  [s EXCEPT ![c] = [req |-> @.req,
                    st |-> IF o.ok THEN "ok" ELSE "err",
                    out |-> SendResult(c, @.req, o)]]

\* dropping the join leaves the members running
DropInFlight_KeepRunning(s) == s

\* a future dropped while its send is in flight never resumes
DropInFlight(s) ==
  [c \in DOMAIN s |-> IF s[c].st = "inflight" THEN [s[c] EXCEPT !.st = "cancelled"] ELSE s[c]]

\* validate_request that validates nothing
validate_request_Skipped(request) == Valid

\* validate_request that applies the URL rule only
validate_request_UrlOnly(request) == validate_url(request.url)

\* HttpRequestService::validate_request
validate_request(request) == validate(request)

Init ==
  /\ op = "none"
  /\ pc = "idle"
  /\ requests = <<>>
  /\ max_retries = 0
  /\ attempt = 0
  /\ range = [start |-> 0, end |-> 0, exhausted |-> FALSE]
  /\ validations = 0
  /\ sends = <<>>
  /\ elems = <<>>
  /\ log = <<>>
  /\ result = NoResult
  /\ fx = [op |-> "none"]
  /\ calls = <<>>
  /\ conns = <<>>
  /\ diag = {}

\* ------------------------------------------------- RequestValidator::validate
\* a direct call of the validator, as the unit tests make
CallValidate(request) ==
  /\ pc = "idle"
  /\ op' = "validate"
  /\ requests' = <<request>>
  /\ validations' = validations + 1
  /\ result' = IF validate(request).ok
                 THEN OkResult(<<>>)
                 ELSE ErrResult(ValidationError(validate(request).msg, 1))
  /\ pc' = "done"
  /\ UNCHANGED <<max_retries, attempt, range, sends, elems, log>>
  /\ UNCHANGED <<fx, calls, conns, diag>>

\* ------------------------------------------- HttpRequestService::send_request
\* validate_request(&request)?; then the transport send begins
CallSendRequest(request) ==
  /\ pc = "idle"
  /\ op' = "send_request"
  /\ requests' = <<request>>
  /\ validations' = validations + 1
  /\ IF ~validate_request(request).ok
       THEN /\ result' = ErrResult(ValidationError(validate_request(request).msg, 1))
            /\ pc' = "done"
            /\ UNCHANGED sends
       ELSE /\ sends' = StartSend(sends, 1)
            /\ pc' = "request_await"
            /\ UNCHANGED result
  /\ UNCHANGED <<max_retries, attempt, range, elems, log>>
  /\ UNCHANGED <<fx, calls, conns, diag>>

\* self.http_client.send(request).await yields; its value is the return value
SendRequestReturn(o) ==
  /\ pc = "request_await"
  /\ LET c == Len(sends)
         done == FinishSend(sends, c, o)
     IN /\ sends' = done
        /\ log' = Append(log, c)
        /\ result' = done[c].out
  /\ pc' = "done"
  /\ UNCHANGED <<op, requests, max_retries, attempt, range, validations, elems>>
  /\ UNCHANGED <<fx, calls, conns, diag>>

\* --------------------------------------- HttpRequestService::send_with_retry
\* the largest value of the type of max_retries and attempt: u32::MAX in the
\* code, the largest max_retries explored in the model
AttemptMax == MaxRetries

\* <u32 as Step>::forward_unchecked(n, 1), in the width of the type
StepForward(n) == (n + 1) % (AttemptMax + 1)

\* the range expression 0..=max_retries
RangeInclusiveNew(start, end) == [start |-> start, end |-> end, exhausted |-> FALSE]

\* the loop written with the half-open range 0..max_retries + 1, the sum
\* taken in the width of the type
RangeInclusiveNext_EndPlusOne(r) ==
  IF r.start < StepForward(r.end)
    THEN [some |-> TRUE, val |-> r.start, range |-> [r EXCEPT !.start = StepForward(r.start)]]
    ELSE [some |-> FALSE, val |-> 0, range |-> r]

\* <RangeInclusive<u32> as Iterator>::next: None once exhausted or empty;
\* below the end the start is stepped and its old value yielded; at the end
\* the end is yielded and the range marked exhausted
RangeInclusiveNext(r) ==
  IF r.exhausted \/ ~(r.start <= r.end)
    THEN [some |-> FALSE, val |-> 0, range |-> r]
  ELSE IF r.start < r.end
    THEN [some |-> TRUE, val |-> r.start, range |-> [r EXCEPT !.start = StepForward(r.start)]]
  ELSE [some |-> TRUE, val |-> r.start, range |-> [r EXCEPT !.exhausted = TRUE]]

\* the match without the guard on the error arm: every error continues
RetryArm_NoGuard(o, att, max) ==
  IF o.ok THEN "return"
  ELSE "continue"

\* the match with the guard attempt + 1 >= max_retries: one attempt fewer
RetryArm_OneFewer(o, att, max) ==
  IF o.ok THEN "return"
  ELSE IF att + 1 >= max THEN "return"
  ELSE "continue"

\* the match with the guard attempt == max_retries + 1: one attempt more
RetryArm_OneMore(o, att, max) ==
  IF o.ok THEN "return"
  ELSE IF att = max + 1 THEN "return"
  ELSE "continue"

\* the match on one attempt's result: Ok(response) => return, Err(e) if
\* attempt == max_retries => return, Err(_) => continue
RetryArm(o, att, max) ==
  IF o.ok THEN "return"
  ELSE IF att = max THEN "return"
  ELSE "continue"

\* continue that starts the next attempt without awaiting the current one
RetryContinue_NoAwait(s, c, o) == StartSend(s, 1)

\* continue: the awaited attempt c has returned, and the next iteration
\* calls send with a clone of the request
RetryContinue(s, c, o) == StartSend(FinishSend(s, c, o), 1)

\* validate_request(&request)?; then the loop takes its first value from
\* the range and the first iteration's send begins
CallSendWithRetry(request, n) ==
  /\ pc = "idle"
  /\ op' = "send_with_retry"
  /\ requests' = <<request>>
  /\ max_retries' = n
  /\ validations' = validations + 1
  /\ LET it == RangeInclusiveNext(RangeInclusiveNew(0, n))
     IN IF ~validate_request(request).ok
          THEN /\ result' = ErrResult(ValidationError(validate_request(request).msg, 1))
               /\ pc' = "done"
               /\ UNCHANGED <<sends, attempt, range>>
        ELSE IF it.some
          THEN /\ attempt' = it.val
               /\ range' = it.range
               /\ sends' = StartSend(sends, 1)
               /\ pc' = "retry_await"
               /\ UNCHANGED result
        ELSE /\ range' = it.range
             /\ pc' = "unreachable"
             /\ UNCHANGED <<sends, attempt, result>>
  /\ UNCHANGED <<elems, log>>
  /\ UNCHANGED <<fx, calls, conns, diag>>

\* the awaited send of the current attempt yields: return, or continue with
\* the next value of the range; when the range has none the loop ends and
\* unreachable!() is executed
RetryAttemptReturn(o) ==
  /\ pc = "retry_await"
  /\ LET c == Len(sends)
         it == RangeInclusiveNext(range)
     IN /\ log' = Append(log, c)
        /\ IF RetryArm(o, attempt, max_retries) = "return"
             THEN /\ sends' = FinishSend(sends, c, o)
                  /\ result' = sends'[c].out
                  /\ pc' = "done"
                  /\ UNCHANGED <<attempt, range>>
           ELSE IF it.some
             THEN /\ sends' = RetryContinue(sends, c, o)
                  /\ attempt' = it.val
                  /\ range' = it.range
                  /\ UNCHANGED <<result, pc>>
           ELSE /\ sends' = FinishSend(sends, c, o)
                /\ range' = it.range
                /\ pc' = "unreachable"
                /\ UNCHANGED <<attempt, result>>
  /\ UNCHANGED <<op, requests, max_retries, validations, elems>>
  /\ UNCHANGED <<fx, calls, conns, diag>>

\* --------------------------------------------- HttpRequestService::send_batch
\* a validation "loop" that looks at the first request only
FirstInvalid_HeadOnly(reqs, i) ==
  IF Len(reqs) >= 1 /\ ~validate_request(reqs[1]).ok THEN 1 ELSE 0

\* for request in &requests { validate_request(request)?; }: the index of
\* the request the loop returns at, 0 when it runs to the end
RECURSIVE FirstInvalid(_, _)
FirstInvalid(reqs, i) ==
  IF i > Len(reqs) THEN 0
  ELSE IF ~validate_request(reqs[i]).ok THEN i
  ELSE FirstInvalid(reqs, i + 1)

\* requests.into_iter().map(|req| self.http_client.send(req)), collected by
\* try_join_all: one future per request, none polled yet
MakeElems(reqs) == [i \in 1..Len(reqs) |-> [st |-> "created", call |-> 0]]

\* a poll loop that awaits the members one after the other: it stops at the
\* first member that is not ready
RECURSIVE PollLoop_Sequential(_, _, _)
PollLoop_Sequential(i, j, outs) ==
  IF i > Len(j.elems) THEN j
  ELSE IF j.elems[i].st = "ok" THEN PollLoop_Sequential(i + 1, j, outs)
  ELSE
    LET fresh == j.elems[i].st = "created"
        s0 == IF fresh THEN StartSend(j.sends, i) ELSE j.sends
        c == IF fresh THEN Len(s0) ELSE j.elems[i].call
    IN IF outs[i] = Pending
         THEN [j EXCEPT !.elems[i] = [st |-> "pending", call |-> c], !.sends = s0]
       ELSE IF outs[i].ok
         THEN PollLoop_Sequential(i + 1,
                [j EXCEPT !.elems[i] = [st |-> "ok", call |-> c],
                          !.sends = FinishSend(s0, c, outs[i]),
                          !.log = Append(j.log, c)],
                outs)
       ELSE [j EXCEPT !.elems[i] = [st |-> "err", call |-> c],
                      !.sends = FinishSend(s0, c, outs[i]),
                      !.log = Append(j.log, c),
                      !.err = c]

\* the poll loop without the break: it polls every member and keeps the
\* error of the last failing one
RECURSIVE PollLoop_NoBreak(_, _, _)
PollLoop_NoBreak(i, j, outs) ==
  IF i > Len(j.elems) THEN j
  ELSE IF j.elems[i].st = "ok" THEN PollLoop_NoBreak(i + 1, j, outs)
  ELSE
    LET fresh == j.elems[i].st = "created"
        s0 == IF fresh THEN StartSend(j.sends, i) ELSE j.sends
        c == IF fresh THEN Len(s0) ELSE j.elems[i].call
    IN IF outs[i] = Pending
         THEN PollLoop_NoBreak(i + 1,
                [j EXCEPT !.elems[i] = [st |-> "pending", call |-> c], !.sends = s0],
                outs)
       ELSE IF outs[i].ok
         THEN PollLoop_NoBreak(i + 1,
                [j EXCEPT !.elems[i] = [st |-> "ok", call |-> c],
                          !.sends = FinishSend(s0, c, outs[i]),
                          !.log = Append(j.log, c)],
                outs)
       ELSE PollLoop_NoBreak(i + 1,
                [j EXCEPT !.elems[i] = [st |-> "err", call |-> c],
                          !.sends = FinishSend(s0, c, outs[i]),
                          !.log = Append(j.log, c),
                          !.err = c],
                outs)

\* TryJoinAll::poll, the loop over elems from index i on.  j holds elems,
\* sends, log and err (the call whose error ended the loop, 0 if none);
\* outs[i] is what polling member i yields.  A member already Done is not
\* polled again; the first Err breaks out of the loop.
RECURSIVE PollLoop(_, _, _)
PollLoop(i, j, outs) ==
  IF i > Len(j.elems) THEN j
  ELSE IF j.elems[i].st = "ok" THEN PollLoop(i + 1, j, outs)
  ELSE
    LET fresh == j.elems[i].st = "created"
        s0 == IF fresh THEN StartSend(j.sends, i) ELSE j.sends
        c == IF fresh THEN Len(s0) ELSE j.elems[i].call
    IN IF outs[i] = Pending
         THEN PollLoop(i + 1,
                [j EXCEPT !.elems[i] = [st |-> "pending", call |-> c], !.sends = s0],
                outs)
       ELSE IF outs[i].ok
         THEN PollLoop(i + 1,
                [j EXCEPT !.elems[i] = [st |-> "ok", call |-> c],
                          !.sends = FinishSend(s0, c, outs[i]),
                          !.log = Append(j.log, c)],
                outs)
       ELSE [j EXCEPT !.elems[i] = [st |-> "err", call |-> c],
                      !.sends = FinishSend(s0, c, outs[i]),
                      !.log = Append(j.log, c),
                      !.err = c]

\* outputs gathered in the order the sends returned
CollectOutputs_CompletionOrder(es, s, lg) == [k \in 1..Len(lg) |-> s[lg[k]].out.val]

\* FinalState::AllDone: take_output of every member, in elems order
CollectOutputs(es, s, lg) == [i \in 1..Len(es) |-> s[es[i].call].out.val]

\* one TryJoinAll::poll: the loop, then the match on its final state
TryJoinAllPoll(es, s, lg, outs) ==
  LET j == PollLoop(1, [elems |-> es, sends |-> s, log |-> lg, err |-> 0], outs)
  IN IF j.err # 0
       THEN [elems |-> <<>>, sends |-> DropInFlight(j.sends), log |-> j.log,
             result |-> j.sends[j.err].out, pc |-> "done"]
     ELSE IF \E i \in 1..Len(j.elems) : j.elems[i].st = "pending"
       THEN [elems |-> j.elems, sends |-> j.sends, log |-> j.log,
             result |-> NoResult, pc |-> "joining"]
     ELSE [elems |-> <<>>, sends |-> j.sends, log |-> j.log,
           result |-> OkResult(CollectOutputs(j.elems, j.sends, j.log)), pc |-> "done"]

\* the validation loop, the construction of the futures and the first poll
\* of try_join_all(futures).await
CallSendBatch(reqs, outs) ==
  /\ pc = "idle"
  /\ op' = "send_batch"
  /\ requests' = reqs
  /\ LET bad == FirstInvalid(reqs, 1)
     IN IF bad # 0
          THEN /\ validations' = validations + bad
               /\ result' = ErrResult(ValidationError(validate_request(reqs[bad]).msg, bad))
               /\ pc' = "done"
               /\ UNCHANGED <<sends, elems, log>>
          ELSE LET r == TryJoinAllPoll(MakeElems(reqs), sends, log, outs)
               IN /\ validations' = validations + Len(reqs)
                  /\ elems' = r.elems
                  /\ sends' = r.sends
                  /\ log' = r.log
                  /\ result' = r.result
                  /\ pc' = r.pc
  /\ UNCHANGED <<max_retries, attempt, range>>
  /\ UNCHANGED <<fx, calls, conns, diag>>

\* the task is woken and try_join_all is polled again
BatchPoll(outs) ==
  /\ pc = "joining"
  /\ LET r == TryJoinAllPoll(elems, sends, log, outs)
     IN /\ elems' = r.elems
        /\ sends' = r.sends
        /\ log' = r.log
        /\ result' = r.result
        /\ pc' = r.pc
  /\ UNCHANGED <<op, requests, max_retries, attempt, range, validations>>
  /\ UNCHANGED <<fx, calls, conns, diag>>

\* ------------------------------------------------------------- specification
Next ==
  \/ \E request \in Requests : CallValidate(request)
  \/ \E request \in Requests : CallSendRequest(request)
  \/ \E o \in Outcomes : SendRequestReturn(o)
  \/ \E request \in Requests, n \in 0..MaxRetries : CallSendWithRetry(request, n)
  \/ \E o \in Outcomes : RetryAttemptReturn(o)
  \/ \E reqs \in BatchInputs : \E outs \in [1..Len(reqs) -> PollOutcomes] : CallSendBatch(reqs, outs)
  \/ \E outs \in [1..Len(elems) -> PollOutcomes] : BatchPoll(outs)

Spec == Init /\ [][Next]_vars

\* ==================================================================== claims

\* C1: send_batch validates every request before dispatching any.  When some
\* request of the input list fails RequestValidator::validate, wherever it
\* sits, no transport send is ever created or started for the batch, and the
\* call has returned the validation error of the first invalid request in
\* input order.
C1_BatchValidatesBeforeDispatch ==
  (op = "send_batch" /\ \E i \in 1..Len(requests) : ~validate(requests[i]).ok) =>
    LET bad == { i \in 1..Len(requests) : ~validate(requests[i]).ok }
        first == CHOOSE i \in bad : \A k \in bad : i <= k
    IN /\ sends = <<>>
       /\ elems = <<>>
       /\ log = <<>>
       /\ pc = "done"
       /\ result = ErrResult(ValidationError(validate(requests[first]).msg, first))

\* C1 witness: a batch of three whose first two requests are valid and whose
\* third is not has returned.
C1_Witness ==
  /\ op = "send_batch"
  /\ pc = "done"
  /\ Len(requests) = 3
  /\ validate(requests[1]).ok
  /\ validate(requests[2]).ok
  /\ ~validate(requests[3]).ok
  /\ result.tag = "Err"

\* C2: when every request of a batch validates and no send fails, send_batch
\* returns Ok with exactly one response per request, and the i-th response is
\* the one the transport gave for the i-th request, in whatever order the
\* sends returned.
C2_BatchResponsesInInputOrder ==
  ( /\ op = "send_batch"
    /\ pc = "done"
    /\ \A i \in 1..Len(requests) : validate(requests[i]).ok
    /\ \A c \in 1..Len(sends) : sends[c].st # "err" ) =>
    /\ result.tag = "Ok"
    /\ Len(result.val) = Len(requests)
    /\ Len(sends) = Len(requests)
    /\ \A i \in 1..Len(requests) :
         /\ result.val[i].req = i
         /\ \E c \in 1..Len(sends) :
              /\ sends[c].req = i
              /\ sends[c].st = "ok"
              /\ sends[c].out = OkResult(result.val[i])

\* C2 witness: a batch of three returned Ok although the send of the last
\* request returned first and the send of the first request returned last.
C2_Witness ==
  /\ op = "send_batch"
  /\ pc = "done"
  /\ result.tag = "Ok"
  /\ Len(requests) = 3
  /\ Len(log) = 3
  /\ sends[log[1]].req = 3
  /\ sends[log[3]].req = 1

\* C3: send_with_retry on a valid request whose transport fails the first
\* k <= max_retries attempts and then succeeds returns that success
\* response after exactly k + 1 transport calls: a successful send is always
\* the last call made, every call before it failed, the call has returned
\* its response, and the call never gives up with fewer than
\* max_retries + 1 calls unless the last one succeeded.
C3_RetryReturnsFirstSuccess ==
  (op = "send_with_retry" /\ validate(requests[1]).ok) =>
    /\ \A c \in 1..Len(sends) :
         sends[c].st = "ok" =>
           /\ c = Len(sends)
           /\ c <= max_retries + 1
           /\ \A k \in 1..(c - 1) : sends[k].st = "err"
           /\ pc = "done"
           /\ result = sends[c].out
           /\ result.tag = "Ok"
    /\ (pc = "done" /\ Len(sends) <= max_retries) =>
         (result.tag = "Ok" /\ sends[Len(sends)].st = "ok")
    /\ (pc = "done" /\ result.tag = "Ok") => sends[Len(sends)].st = "ok"

\* C3 witness: with max_retries = 2 the first attempt failed, the second
\* succeeded, and the call returned after two transport calls.
C3_Witness ==
  /\ op = "send_with_retry"
  /\ pc = "done"
  /\ max_retries = 2
  /\ Len(sends) = 2
  /\ sends[1].st = "err"
  /\ sends[2].st = "ok"
  /\ result.tag = "Ok"

\* C4: send_with_retry on a valid request whose transport fails on every
\* attempt makes exactly max_retries + 1 transport calls, never more, and
\* then returns the error of the last of them.
C4_RetryExhaustsThenLastError ==
  (op = "send_with_retry" /\ validate(requests[1]).ok) =>
    /\ Len(sends) <= max_retries + 1
    /\ (\A c \in 1..Len(sends) : sends[c].st = "err") =>
         IF Len(sends) = max_retries + 1
           THEN /\ pc = "done"
                /\ result = ErrResult(TransportError(max_retries + 1))
                /\ result = sends[Len(sends)].out
           ELSE pc # "done"
    /\ (pc = "done" /\ result.tag = "Err") =>
         /\ Len(sends) = max_retries + 1
         /\ \A c \in 1..Len(sends) : sends[c].st = "err"

\* C4 witness: with max_retries = 2 all three attempts failed and the call
\* returned the third attempt's error.
C4_Witness ==
  /\ op = "send_with_retry"
  /\ pc = "done"
  /\ max_retries = 2
  /\ Len(sends) = 3
  /\ result = ErrResult(TransportError(3))

\* C5: send_request runs the validator once.  If it fails, the transport is
\* never invoked and the validation error is the return value; if it
\* passes, the transport is invoked exactly once and, once that send has
\* returned, its response or error is the return value, unchanged.
C5_SendRequestValidatesThenSendsOnce ==
  op = "send_request" =>
    /\ validations = 1
    /\ IF ~validate(requests[1]).ok
         THEN /\ sends = <<>>
              /\ pc = "done"
              /\ result = ErrResult(ValidationError(validate(requests[1]).msg, 1))
         ELSE /\ Len(sends) = 1
              /\ sends[1].req = 1
              /\ IF pc = "done"
                   THEN /\ sends[1].st \in { "ok", "err" }
                        /\ result = sends[1].out
                        /\ result.tag = (IF sends[1].st = "ok" THEN "Ok" ELSE "Err")
                        /\ sends[1].st = "ok" => result.val.call = 1
                        /\ sends[1].st = "err" => result.val = TransportError(1)
                   ELSE /\ sends[1].st = "inflight"
                        /\ result = NoResult

\* C5 witness: send_request on a valid request returned the transport's
\* error.
C5_Witness ==
  /\ op = "send_request"
  /\ pc = "done"
  /\ validate(requests[1]).ok
  /\ result = ErrResult(TransportError(1))

C8_RetryValidatesOnce ==
  op = "send_with_retry" =>
    /\ validations = 1
    /\ ~validate(requests[1]).ok =>
         /\ sends = <<>>
         /\ attempt = 0
         /\ pc = "done"
         /\ result = ErrResult(ValidationError(validate(requests[1]).msg, 1))

\* C8 witness: send_with_retry with max_retries = 2 on a GET request with
\* a body (an http URL) returned without a transport call.
C8_Witness ==
  /\ op = "send_with_retry"
  /\ pc = "done"
  /\ max_retries = 2
  /\ validate_url(requests[1].url).ok
  /\ ~validate(requests[1]).ok
  /\ sends = <<>>

\* C9: within one send_with_retry call at most one transport send is in
\* flight, and a later attempt exists only when every earlier attempt has
\* returned a failure, in order.
C9_RetryAttemptsSequential ==
  op = "send_with_retry" =>
    /\ Cardinality({ c \in 1..Len(sends) : sends[c].st = "inflight" }) <= 1
    /\ \A c \in 1..Len(sends) : c < Len(sends) => sends[c].st = "err"
    /\ \A k \in 1..Len(log) : log[k] = k
    /\ Len(log) \in { Len(sends), Len(sends) - 1 }

\* C9 witness: the third attempt is in flight after two failed attempts.
C9_Witness ==
  /\ op = "send_with_retry"
  /\ pc = "retry_await"
  /\ Len(sends) = 3
  /\ sends[3].st = "inflight"
  /\ attempt = 2

\* C10: RequestValidator::validate fails for every request whose URL string
\* form is empty or starts with neither "http://" nor "https://", also when
\* Url::new accepted the text; and for every URL whose string form starts
\* with one of the two prefixes the URL rule passes, so that validate either
\* succeeds or fails with the method/body error only.
C10_UrlRule ==
  op = "validate" =>
    LET url_str == UrlAsStr(requests[1].url)
        http == Len(url_str) >= 7 /\ SubSeq(url_str, 1, 7) = <<"h", "t", "t", "p", ":", "/", "/">>
        https == Len(url_str) >= 8 /\ SubSeq(url_str, 1, 8) = <<"h", "t", "t", "p", "s", ":", "/", "/">>
    IN /\ (Len(url_str) = 0 \/ (~http /\ ~https)) =>
            /\ result.tag = "Err"
            /\ result.val.kind = "validation"
            /\ result.val.msg \in { "URL cannot be empty", "URL must start with http:// or https://" }
       /\ (http \/ https) =>
            /\ validate_url(requests[1].url).ok
            /\ \/ result = OkResult(<<>>)
               \/ /\ result.tag = "Err"
                  /\ result.val.msg = "GET requests should not have a body"
                  /\ requests[1].method = "Get"
                  /\ requests[1].body.some

\* C10 witness: a POST without body to "ftp://a", a text Url::new accepts,
\* was rejected by the validator.
C10_Witness ==
  /\ op = "validate"
  /\ requests[1].url = UrlNew(<<"f", "t", "p", ":", "/", "/", "a">>).uri
  /\ UrlNew(<<"f", "t", "p", ":", "/", "/", "a">>).ok
  /\ requests[1].method = "Post"
  /\ ~requests[1].body.some
  /\ result.tag = "Err"

\* C11: for every request with method GET and a body, validate fails; for
\* every other combination of the seven methods with a body present or
\* absent the method/body rule passes: validate never reports the method/body
\* error, and accepts the request when its URL string form starts with
\* "http://" or "https://".
C11_MethodBodyRule ==
  op = "validate" =>
    LET r == requests[1]
        url_str == UrlAsStr(r.url)
        http == Len(url_str) >= 7 /\ SubSeq(url_str, 1, 7) = <<"h", "t", "t", "p", ":", "/", "/">>
        https == Len(url_str) >= 8 /\ SubSeq(url_str, 1, 8) = <<"h", "t", "t", "p", "s", ":", "/", "/">>
    IN IF r.method = "Get" /\ r.body.some
         THEN /\ result.tag = "Err"
              /\ result.val.kind = "validation"
              /\ (http \/ https) => result.val.msg = "GET requests should not have a body"
         ELSE /\ r.method \in Methods
              /\ validate_method_body_combination(r).ok
              /\ result.tag = "Err" => result.val.msg # "GET requests should not have a body"
              /\ (http \/ https) => result = OkResult(<<>>)

\* C11 witness: a DELETE with a body to "https://a" was accepted.
C11_Witness ==
  /\ op = "validate"
  /\ requests[1].method = "Delete"
  /\ requests[1].body.some
  /\ requests[1].url = HttpsA
  /\ result = OkResult(<<>>)

\* C16: the validator applies the URL rule first and reports the first
\* failing rule: a request that breaks both rules gets the URL error, and
\* the method/body error is reported only for a URL that passes the URL
\* rule.
C16_UrlRuleFirst ==
  (op \in { "validate", "send_request", "send_with_retry" } /\ pc = "done") =>
    LET r == requests[1]
        url_str == UrlAsStr(r.url)
        http == Len(url_str) >= 7 /\ SubSeq(url_str, 1, 7) = <<"h", "t", "t", "p", ":", "/", "/">>
        https == Len(url_str) >= 8 /\ SubSeq(url_str, 1, 8) = <<"h", "t", "t", "p", "s", ":", "/", "/">>
    IN /\ (~(http \/ https) /\ r.method = "Get" /\ r.body.some) =>
            /\ result.tag = "Err"
            /\ result.val.kind = "validation"
            /\ result.val.msg = (IF Len(url_str) = 0
                                   THEN "URL cannot be empty"
                                   ELSE "URL must start with http:// or https://")
       /\ (result.tag = "Err" /\ result.val.msg = "GET requests should not have a body") =>
            (http \/ https)

\* C16 witness: a GET with a body to "ftp://a" was rejected with the URL
\* error.
C16_Witness ==
  /\ op = "validate"
  /\ requests[1].url = FtpA
  /\ requests[1].method = "Get"
  /\ requests[1].body.some
  /\ result.tag = "Err"
  /\ result.val.msg = "URL must start with http:// or https://"

UpperLetters == <<"A", "B", "C", "D", "E", "F", "G", "H", "I", "J", "K", "L", "M",
                  "N", "O", "P", "Q", "R", "S", "T", "U", "V", "W", "X", "Y", "Z">>
LowerLetters == <<"a", "b", "c", "d", "e", "f", "g", "h", "i", "j", "k", "l", "m",
                  "n", "o", "p", "q", "r", "s", "t", "u", "v", "w", "x", "y", "z">>
Digits == { "0", "1", "2", "3", "4", "5", "6", "7", "8", "9" }

\* the ASCII case mappings
AsciiLower(c) ==
  IF \E i \in 1..26 : UpperLetters[i] = c
    THEN LowerLetters[CHOOSE i \in 1..26 : UpperLetters[i] = c]
    ELSE c
AsciiUpper(c) ==
  IF \E i \in 1..26 : LowerLetters[i] = c
    THEN UpperLetters[CHOOSE i \in 1..26 : LowerLetters[i] = c]
    ELSE c
LowerText(s) == [k \in 1..Len(s) |-> AsciiLower(s[k])]
UpperText(s) == [k \in 1..Len(s) |-> AsciiUpper(s[k])]

\* the characters HeaderName accepts: letters, digits and the punctuation of
\* RFC 7230 tchar that the texts of the model use
TokenChars ==
  { UpperLetters[i] : i \in 1..26 } \cup { LowerLetters[i] : i \in 1..26 } \cup Digits
    \cup { "-", ".", "_" }

\* the characters HeaderValue rejects, among those of the model
ControlChars == { "\n", "\r" }

\* HeaderName::try_from(&str): a non-empty token, stored lower-cased
HeaderNameFrom(name) ==
  IF name = <<>> \/ \E k \in 1..Len(name) : name[k] \notin TokenChars
    THEN [ok |-> FALSE, name |-> <<>>]
    ELSE [ok |-> TRUE, name |-> LowerText(name)]

\* HeaderValue::try_from(&str): visible bytes only, stored as given
HeaderValueFrom(value) ==
  IF \E k \in 1..Len(value) : value[k] \in ControlChars
    THEN [ok |-> FALSE, value |-> <<>>]
    ELSE [ok |-> TRUE, value |-> value]

\* hyper::header::HOST, CONTENT_TYPE and the static value "application/json"
HOST == <<"h", "o", "s", "t">>
CONTENT_TYPE == <<"c", "o", "n", "t", "e", "n", "t", "-", "t", "y", "p", "e">>
ApplicationJson ==
  <<"a", "p", "p", "l", "i", "c", "a", "t", "i", "o", "n", "/", "j", "s", "o", "n">>

\* ----------------------------------------------------------------- HeaderMap
\* A HeaderMap is a sequence of entries [name, values], one entry per name
\* in the order the names were first added.

\* HeaderMap::append: the value joins those the name already has
HeaderMapAppend(hm, n, v) ==
  IF \E k \in 1..Len(hm) : hm[k].name = n
    THEN LET k == CHOOSE k \in 1..Len(hm) : hm[k].name = n
         IN [hm EXCEPT ![k].values = Append(@, v)]
    ELSE Append(hm, [name |-> n, values |-> <<v>>])

\* HeaderMap::iter: entry after entry, each with its values in order
RECURSIVE HeaderMapIter(_)
HeaderMapIter(hm) ==
  IF hm = <<>> THEN <<>>
  ELSE [k \in 1..Len(hm[1].values) |-> <<hm[1].name, hm[1].values[k]>>]
         \o HeaderMapIter(Tail(hm))

\* ------------------------------------------------ http::request::Builder
\* HyperRequest::builder().method(method).uri(uri)
BuilderNew(method, uri) == [ok |-> TRUE, method |-> method, uri |-> uri, headers |-> <<>>]

\* Builder::header: keeps an earlier error, fails on a bad name or value,
\* appends otherwise
BuilderHeader(b, key, value) ==
  IF ~b.ok THEN b
  ELSE IF ~HeaderNameFrom(key).ok \/ ~HeaderValueFrom(value).ok
    THEN [b EXCEPT !.ok = FALSE]
  ELSE [b EXCEPT !.headers =
          HeaderMapAppend(@, HeaderNameFrom(key).name, HeaderValueFrom(value).value)]

\* Builder::body: the request, or the error the builder holds
BuilderBody(b, body) ==
  IF b.ok
    THEN [ok |-> TRUE, method |-> b.method, uri |-> b.uri, headers |-> b.headers, body |-> body]
    ELSE [ok |-> FALSE, method |-> "", uri |-> EmptyUri, headers |-> <<>>, body |-> <<>>]

\* ------------------------------------------------------------------ adapters
\* MethodAdapter::to_hyper_method
to_hyper_method(domain_method) ==
  CASE domain_method = "Get" -> "GET"
    [] domain_method = "Post" -> "POST"
    [] domain_method = "Put" -> "PUT"
    [] domain_method = "Delete" -> "DELETE"
    [] domain_method = "Patch" -> "PATCH"
    [] domain_method = "Head" -> "HEAD"
    [] domain_method = "Options" -> "OPTIONS"

\* BodyAdapter::to_hyper_body
to_hyper_body(domain_body) == IF domain_body.some THEN domain_body.text ELSE <<>>

\* add_json_content_type without the test of the body
add_json_content_type_Always(builder, body) ==
  BuilderHeader(builder, CONTENT_TYPE, ApplicationJson)

\* HeaderAdapter::add_json_content_type
add_json_content_type(builder, body) ==
  IF body.some THEN BuilderHeader(builder, CONTENT_TYPE, ApplicationJson) ELSE builder

\* add_headers going through the headers from the last to the first
RECURSIVE add_headers_Reversed(_, _)
add_headers_Reversed(builder, headers) ==
  IF headers = <<>> THEN builder
  ELSE add_headers_Reversed(
         BuilderHeader(builder, headers[Len(headers)][1], headers[Len(headers)][2]),
         SubSeq(headers, 1, Len(headers) - 1))

\* HeaderAdapter::add_headers
RECURSIVE add_headers(_, _)
add_headers(builder, headers) ==
  IF headers = <<>> THEN builder
  ELSE add_headers(BuilderHeader(builder, headers[1][1], headers[1][2]), Tail(headers))

\* RequestAdapter::to_hyper_request
to_hyper_request(domain_request, uri) ==
  LET method == to_hyper_method(domain_request.method)
      body == to_hyper_body(domain_request.body)
      b0 == BuilderNew(method, uri)
      b1 == IF uri.authority # <<>> THEN BuilderHeader(b0, HOST, uri.authority) ELSE b0
      b2 == add_json_content_type(b1, domain_request.body)
      b3 == add_headers(b2, domain_request.headers)
  IN BuilderBody(b3, body)

\* ------------------------------------------------------ adapter inputs
XA == <<"X", "-", "A">>
XB == <<"X", "-", "B">>
ContentTypeName == <<"C", "o", "n", "t", "e", "n", "t", "-", "T", "y", "p", "e">>
TextPlain == <<"t", "e", "x", "t", "/", "p", "l", "a", "i", "n">>

\* Request.headers values given to the adapter: none, one, a caller's own
\* Content-Type, two names, a repeated name with another in between, the
\* same header twice, a lower-case name, a caller's Host, a name with a
\* space and a value with a line feed
AdapterHeaderLists ==
  { <<>>,
    << <<XA, <<"1">>>> >>,
    << <<ContentTypeName, TextPlain>> >>,
    << <<XA, <<"1">>>>, <<XB, <<"2">>>> >>,
    << <<XA, <<"1">>>>, <<XB, <<"2">>>>, <<XA, <<"3">>>> >>,
    << <<XA, <<"1">>>>, <<XA, <<"1">>>> >>,
    << <<LowerText(XA), <<"1">>>> >>,
    << <<<<"H", "o", "s", "t">>, <<"b">>>> >>,
    << <<<<"X", " ", "A">>, <<"1">>>> >>,
    << <<XA, <<"1", "\n">>>> >> }

PathA == UrlNew(<<"/", "a">>).uri

AdapterRequests ==
  { MkRequest(m, u, h, b) :
      m \in Methods, u \in { HttpsA, HttpA, PathA }, h \in AdapterHeaderLists, b \in Bodies }

\* a call of RequestAdapter::to_hyper_request(request, &request.url.0)
CallToHyperRequest(request) ==
  /\ fx.op = "none"
  /\ pc = "idle"
  /\ calls = <<>>
  /\ fx' = [op |-> "to_hyper_request", request |-> request,
            out |-> to_hyper_request(request, request.url)]
  /\ UNCHANGED <<op, pc, requests, max_retries, attempt, range, validations, sends, elems, log, result>>
  /\ UNCHANGED <<calls, conns, diag>>

\* ============================================================ RequestBuilder

MaxHeaderArgs == 2

\* char::is_whitespace, among the characters of the model
Whitespace == { " ", "\t", "\n", "\r" }

\* str::trim_start, str::trim_end, str::trim
RECURSIVE TrimStart(_)
TrimStart(s) == IF s # <<>> /\ s[1] \in Whitespace THEN TrimStart(Tail(s)) ELSE s
RECURSIVE TrimEnd(_)
TrimEnd(s) ==
  IF s # <<>> /\ s[Len(s)] \in Whitespace THEN TrimEnd(SubSeq(s, 1, Len(s) - 1)) ELSE s
Trim(s) == TrimEnd(TrimStart(s))

\* raw.splitn(2, ':').collect(): the text cut at its first colon, or whole
SplitN2(raw) ==
  IF \E k \in 1..Len(raw) : raw[k] = ":"
    THEN LET k == CHOOSE k \in 1..Len(raw) : raw[k] = ":" /\ \A j \in 1..(k - 1) : raw[j] # ":"
         IN << SubSeq(raw, 1, k - 1), SubSeq(raw, k + 1, Len(raw)) >>
    ELSE << raw >>

\* Method::from_str
MethodFromStr(s) ==
  LET up == UpperText(s)
  IN CASE up = <<"G", "E", "T">> -> [ok |-> TRUE, method |-> "Get"]
       [] up = <<"P", "O", "S", "T">> -> [ok |-> TRUE, method |-> "Post"]
       [] up = <<"P", "U", "T">> -> [ok |-> TRUE, method |-> "Put"]
       [] up = <<"D", "E", "L", "E", "T", "E">> -> [ok |-> TRUE, method |-> "Delete"]
       [] up = <<"P", "A", "T", "C", "H">> -> [ok |-> TRUE, method |-> "Patch"]
       [] up = <<"H", "E", "A", "D">> -> [ok |-> TRUE, method |-> "Head"]
       [] up = <<"O", "P", "T", "I", "O", "N", "S">> -> [ok |-> TRUE, method |-> "Options"]
       [] OTHER -> [ok |-> FALSE, method |-> ""]

\* serde_json::from_str::<Value>, for the texts of the model: surrounding
\* whitespace is skipped, and "{}", "[]" and a number without a leading
\* zero are values
IsJsonValue(text) ==
  LET t == Trim(text)
  IN \/ t = <<"{", "}">>
     \/ t = <<"[", "]">>
     \/ /\ t # <<>>
        /\ \A k \in 1..Len(t) : t[k] \in Digits
        /\ (Len(t) > 1 => t[1] # "0")

\* JsonBody::new: the text as given when it is JSON
JsonBodyNew(json) ==
  IF IsJsonValue(json) THEN [ok |-> TRUE, body |-> SomeBody(json)]
                       ELSE [ok |-> FALSE, body |-> NoBody]

\* HashMap::insert on a map held as a function from keys to values
MapInsert(map, k, v) == [x \in DOMAIN map \cup { k } |-> IF x = k THEN v ELSE map[x]]

\* RequestBuilder::headers: every text is split, trimmed and inserted; the
\* first text without a colon fails the call
RECURSIVE BuilderHeaders(_, _)
BuilderHeaders(map, raw_headers) ==
  IF raw_headers = <<>> THEN [ok |-> TRUE, headers |-> map]
  ELSE LET parts == SplitN2(raw_headers[1])
       IN IF Len(parts) # 2 THEN [ok |-> FALSE, headers |-> map]
          ELSE BuilderHeaders(MapInsert(map, Trim(parts[1]), Trim(parts[2])),
                              Tail(raw_headers))

\* the orders HashMap::into_iter can yield the keys of a map in
IterOrders(map) ==
  LET keys == DOMAIN map
      n == Cardinality(keys)
  IN { f \in [1..n -> keys] : \A i, j \in 1..n : i # j => f[i] # f[j] }

\* self.headers.into_iter().collect(), for one iteration order
CollectHeaders(map, order) == [i \in 1..Len(order) |-> << order[i], map[order[i]] >>]

\* RequestBuilder::new().method(m)?.url(u)?.headers(h)?.body(j)?.build()
BuildRequest(method, raw_url, raw_headers, json, order) ==
  LET m == MethodFromStr(method)
      u == UrlNew(raw_url)
      h == BuilderHeaders(<<>>, raw_headers)
      b == IF json.some THEN JsonBodyNew(json.text) ELSE [ok |-> TRUE, body |-> NoBody]
  IN IF m.ok /\ u.ok /\ h.ok /\ b.ok
       THEN [ok |-> TRUE,
             request |-> MkRequest(m.method, u.uri, CollectHeaders(h.headers, order), b.body)]
       ELSE [ok |-> FALSE, request |-> MkRequest("", EmptyUri, <<>>, NoBody)]

\* -------------------------------------------------------- builder inputs
\* method texts: "GET", "post", "FETCH"
MethodTexts == { <<"G", "E", "T">>, <<"p", "o", "s", "t">>, <<"F", "E", "T", "C", "H">> }

\* URL texts: "http://a" and ""
BuilderUrls == { HttpPrefix \o <<"a">>, <<>> }

\* header texts: "X-A: 1", "X-A: 2", "X-B:2", "X-A"
RawHeaderTexts ==
  { XA \o <<":", " ", "1">>, XA \o <<":", " ", "2">>, XB \o <<":", "2">>, XA }

RawHeaderLists == SeqsUpTo(RawHeaderTexts, MaxHeaderArgs)

\* Option<String> for body(): None, "{}", "{"
JsonTexts == { [some |-> FALSE, text |-> <<>>], [some |-> TRUE, text |-> <<"{", "}">>],
               [some |-> TRUE, text |-> <<"{">>] }

\* a call of the builder chain; the order HashMap iterates in is not fixed
CallRequestBuilder(method, raw_url, raw_headers, json) ==
  /\ fx.op = "none"
  /\ pc = "idle"
  /\ calls = <<>>
  /\ LET h == BuilderHeaders(<<>>, raw_headers)
     IN \E order \in IterOrders(h.headers) :
          fx' = [op |-> "build", raw_headers |-> raw_headers,
                 out |-> BuildRequest(method, raw_url, raw_headers, json, order)]
  /\ UNCHANGED <<op, pc, requests, max_retries, attempt, range, validations, sends, elems, log, result>>
  /\ UNCHANGED <<calls, conns, diag>>

PureNext ==
  \/ \E request \in AdapterRequests : CallToHyperRequest(request)
  \/ \E method \in MethodTexts, raw_url \in BuilderUrls, raw_headers \in RawHeaderLists,
        json \in JsonTexts :
       CallRequestBuilder(method, raw_url, raw_headers, json)

PureSpec == Init /\ [][PureNext]_vars

\* ============================================================ HyperHttpClient

MaxCalls == 2

\* ------------------------------------------------------ Uri accessors
None == [some |-> FALSE, val |-> <<>>]
Some(v) == [some |-> TRUE, val |-> v]

\* u16::MAX
U16Max == 65535

DigitValue(c) ==
  CASE c = "0" -> 0 [] c = "1" -> 1 [] c = "2" -> 2 [] c = "3" -> 3 [] c = "4" -> 4
    [] c = "5" -> 5 [] c = "6" -> 6 [] c = "7" -> 7 [] c = "8" -> 8 [] c = "9" -> 9

\* the number a text of digits denotes
RECURSIVE DigitsValue(_)
DigitsValue(s) ==
  IF s = <<>> THEN 0 ELSE 10 * DigitsValue(SubSeq(s, 1, Len(s) - 1)) + DigitValue(s[Len(s)])

\* str::parse::<u16>: a non-empty text of digits that fits 16 bits
ParseU16(s) ==
  IF s # <<>> /\ (\A k \in 1..Len(s) : s[k] \in Digits) /\ DigitsValue(s) <= U16Max
    THEN Some(DigitsValue(s))
    ELSE None

\* the position of the last ':' of a text, 0 when it has none
LastColon(a) ==
  IF \E k \in 1..Len(a) : a[k] = ":"
    THEN CHOOSE k \in 1..Len(a) : a[k] = ":" /\ \A j \in (k + 1)..Len(a) : a[j] # ":"
    ELSE 0

\* Uri::host: the authority up to its ':', None without an authority
UriHost(uri) ==
  IF uri.authority = <<>> THEN None
  ELSE Some(SplitN2(uri.authority)[1])

\* Uri::port_u16: what follows the last ':' of the authority, when that
\* parses as u16
UriPortU16(uri) ==
  IF uri.authority = <<>> \/ LastColon(uri.authority) = 0 THEN None
  ELSE ParseU16(DropFirst(uri.authority, LastColon(uri.authority)))

\* uri.scheme_str() == Some("https")
IsHttps(uri) == uri.scheme = SchemeHttps

\* the port of create_connection
ResolvePort(uri) ==
  IF UriPortU16(uri).some THEN UriPortU16(uri).val
  ELSE IF IsHttps(uri) THEN 443
  ELSE 80

\* ------------------------------------------------------ response bytes
\* response bodies as bytes: "é" and the lone byte 0xFF
BodyBytes == { <<195, 169>>, <<255>> }

\* core::str::from_utf8 for sequences of one- and two-byte characters
RECURSIVE IsUtf8(_)
IsUtf8(b) ==
  IF b = <<>> THEN TRUE
  ELSE IF b[1] < 128 THEN IsUtf8(Tail(b))
  ELSE IF b[1] >= 194 /\ b[1] <= 223 /\ Len(b) >= 2 /\ b[2] >= 128 /\ b[2] <= 191
    THEN IsUtf8(Tail(Tail(b)))
  ELSE FALSE

\* String::from_utf8: the String owns the very bytes it was given
StringFromUtf8(b) == IF IsUtf8(b) THEN [ok |-> TRUE, text |-> b] ELSE [ok |-> FALSE, text |-> <<>>]

\* ------------------------------------------------------ call records
ClientErr(msg) == ErrResult([kind |-> "transport", msg |-> msg])

\* where a call of send() stands and what it did: steps lists the steps it
\* entered, conn is its connection (0: none), head the status received and
\* bytes the body bytes received
NewCall(request) ==
  [request |-> request, pc |-> "start", steps |-> <<>>, port |-> 0, conn |-> 0,
   head |-> 0, bytes |-> <<>>, failed_at |-> "", result |-> NoResult]

Enter(call, step, next) == [call EXCEPT !.steps = Append(@, step), !.pc = next]

Fail(call, step, msg) ==
  [call EXCEPT !.pc = "done", !.failed_at = step, !.result = ClientErr(msg)]

\* a connection joined to one that is open to the same address
OpenConnection_Pooled(cs, c, port, uri) ==
  IF \E k \in 1..Len(cs) : cs[k].host = UriHost(uri).val /\ cs[k].port = port
    THEN LET k == CHOOSE k \in 1..Len(cs) : cs[k].host = UriHost(uri).val /\ cs[k].port = port
         IN [cs EXCEPT ![k].owners = @ \cup { c }]
    ELSE Append(cs, [owners |-> { c }, host |-> UriHost(uri).val, port |-> port,
                     tls |-> FALSE, driver |-> "none", sent |-> 0])

\* TcpStream::connect(&addr) succeeded: a stream of the call's own
OpenConnection(cs, c, port, uri) ==
  Append(cs, [owners |-> { c }, host |-> UriHost(uri).val, port |-> port,
              tls |-> FALSE, driver |-> "none", sent |-> 0])

\* the connection call c holds
ConnOf(cs, c) == CHOOSE k \in 1..Len(cs) : c \in cs[k].owners

\* the https branch of create_connection taken for every URI with a scheme
NeedsTls_AnyScheme(uri) == uri.scheme # <<>>

\* the branch of create_connection: uri.scheme_str() == Some("https")
NeedsTls(uri) == IsHttps(uri)

\* the driver task's closure: a failure of conn.await is printed, and the
\* calls are turned into failures
OnDriverError_Surfaced(cs, owners) ==
  [c \in DOMAIN cs |->
     IF c \in owners THEN [cs[c] EXCEPT !.result = ClientErr("Connection failed")] ELSE cs[c]]

\* the driver task's closure: a failure of conn.await is printed, nothing else
OnDriverError(cs, owners) == cs

\* ------------------------------------------------------ transport inputs
\* the requests whose sends are followed to their end: a GET of
\* "https://a", of "http://a" and of "/a", a POST to "http://a" whose
\* header name has a space, and a GET of "https://a" whose header value
\* has a line feed
TransportRequests ==
  { MkRequest("Get", u, <<>>, NoBody) : u \in { HttpsA, HttpA, PathA } }
    \cup { MkRequest("Post", HttpA, << <<<<"X", " ", "A">>, <<"1">>>> >>, SomeBody(<<"{", "}">>)),
           MkRequest("Get", HttpsA, << <<XA, <<"1", "\n">>>> >>, NoBody) }

\* those of them for which builder.body(body) in to_hyper_request yields an
\* error and no wire request
Unbuildable == { r \in TransportRequests : ~to_hyper_request(r, r.url).ok }

\* the URIs whose host and port are resolved: "https://a", "http://a",
\* "/a", "http://a:8", "https://a:8", "http://a:443", "http://a:",
\* "http://a:70000"
ResolveUris ==
  { HttpsA, HttpA, PathA,
    UrlNew(HttpPrefix \o <<"a", ":", "8">>).uri,
    UrlNew(HttpsPrefix \o <<"a", ":", "8">>).uri,
    UrlNew(HttpPrefix \o <<"a", ":", "4", "4", "3">>).uri,
    UrlNew(HttpPrefix \o <<"a", ":">>).uri,
    UrlNew(HttpPrefix \o <<"a", ":", "7", "0", "0", "0", "0">>).uri }

ResolveRequests == { MkRequest(m, u, <<>>, NoBody) : m \in { "Get", "Head" }, u \in ResolveUris }

\* ------------------------------------------------------ HyperHttpClient::send
\* send() that builds the wire request before it creates the connection
SendBegin_BuildFirst(request) ==
  IF ~to_hyper_request(request, request.url).ok
    THEN Fail(NewCall(request), "build", "Failed to build HTTP request")
  ELSE IF ~UriHost(request.url).some
    THEN Fail(Enter(NewCall(request), "resolve", "done"), "resolve", "No host in URI")
  ELSE [Enter(NewCall(request), "resolve", "connect") EXCEPT !.port = ResolvePort(request.url)]

\* the call after the first poll of send(): create_connection has resolved
\* host and port and the TCP connect is under way, or it failed for want of
\* a host
SendBegin(request) ==
  IF ~UriHost(request.url).some
    THEN Fail(Enter(NewCall(request), "resolve", "done"), "resolve", "No host in URI")
    ELSE [Enter(NewCall(request), "resolve", "connect") EXCEPT !.port = ResolvePort(request.url)]

\* send() is polled for the first time: create_connection resolves host and
\* port and starts the TCP connect, or fails for want of a host
CallSend(request) ==
  /\ pc = "idle"
  /\ fx.op = "none"
  /\ Len(calls) < MaxCalls
  /\ calls' = Append(calls, SendBegin(request))
  /\ UNCHANGED <<conns, diag>>
  /\ UNCHANGED <<op, pc, requests, max_retries, attempt, range, validations, sends, elems, log, result, fx>>

\* TcpStream::connect(&addr).await returns; in the https branch the TLS
\* connector is made next (tls_ok: TlsConnector::new() succeeds)
TcpConnect(c, ok, tls_ok) ==
  /\ c \in 1..Len(calls)
  /\ calls[c].pc = "connect"
  /\ IF ok
       THEN /\ conns' = OpenConnection(conns, c, calls[c].port, calls[c].request.url)
            /\ calls' = [calls EXCEPT ![c] =
                 LET entered == [Enter(@, "connect", "handshake") EXCEPT !.conn = ConnOf(conns', c)]
                 IN IF ~NeedsTls(calls[c].request.url) THEN entered
                    ELSE IF tls_ok THEN [entered EXCEPT !.pc = "tls"]
                    ELSE Fail(entered, "tls_connector", "Failed to create TLS connector")]
       ELSE /\ calls' = [calls EXCEPT ![c] =
                 Fail(Enter(@, "connect", "done"), "connect", "Failed to connect")]
            /\ conns' = conns
  /\ UNCHANGED diag
  /\ UNCHANGED <<op, pc, requests, max_retries, attempt, range, validations, sends, elems, log, result, fx>>

\* connector.connect(host, stream).await returns
TlsConnect(c, ok) ==
  /\ c \in 1..Len(calls)
  /\ calls[c].pc = "tls"
  /\ IF ok
       THEN /\ calls' = [calls EXCEPT ![c] = Enter(@, "tls", "handshake")]
            /\ conns' = [conns EXCEPT ![calls[c].conn].tls = TRUE]
       ELSE /\ calls' = [calls EXCEPT ![c] =
                 Fail(Enter(@, "tls", "done"), "tls", "TLS handshake failed")]
            /\ conns' = conns
  /\ UNCHANGED diag
  /\ UNCHANGED <<op, pc, requests, max_retries, attempt, range, validations, sends, elems, log, result, fx>>

\* http1::handshake(io).await returns; on success the driver task is
\* spawned, the wire request is built and handed to the connection's sender
HttpHandshake(c, ok) ==
  /\ c \in 1..Len(calls)
  /\ calls[c].pc = "handshake"
  /\ LET k == calls[c].conn
         wire == to_hyper_request(calls[c].request, calls[c].request.url)
     IN IF ~ok
          THEN /\ calls' = [calls EXCEPT ![c] =
                    Fail(Enter(@, "handshake", "done"), "handshake", "HTTP handshake failed")]
               /\ conns' = conns
        ELSE IF ~wire.ok
          THEN /\ calls' = [calls EXCEPT ![c] =
                    Fail(Enter(@, "handshake", "done"), "build", "Failed to build HTTP request")]
               /\ conns' = [conns EXCEPT ![k].driver = "running"]
        ELSE /\ calls' = [calls EXCEPT ![c] = Enter(Enter(@, "handshake", "send"), "send", "send")]
             /\ conns' = [conns EXCEPT ![k].driver = "running", ![k].sent = @ + 1]
  /\ UNCHANGED diag
  /\ UNCHANGED <<op, pc, requests, max_retries, attempt, range, validations, sends, elems, log, result, fx>>

\* conn.send_request(hyper_request).await returns: a response head with
\* status o, or (o = 0) an error
WireSendReturn(c, o) ==
  /\ c \in 1..Len(calls)
  /\ calls[c].pc = "send"
  /\ calls' = [calls EXCEPT ![c] =
       IF o = 0 THEN Fail(@, "send", "Failed to send HTTP request")
       ELSE [Enter(@, "receive", "receive") EXCEPT !.head = o]]
  /\ UNCHANGED <<conns, diag>>
  /\ UNCHANGED <<op, pc, requests, max_retries, attempt, range, validations, sends, elems, log, result, fx>>

\* ResponseAdapter::to_domain_response: the body is collected (ok) or its
\* reading fails; the bytes b collected must be UTF-8
CollectBody(c, ok, b) ==
  /\ c \in 1..Len(calls)
  /\ calls[c].pc = "receive"
  /\ calls' = [calls EXCEPT ![c] =
       IF ~ok THEN Fail(@, "receive", "Failed to read response body")
       ELSE IF ~StringFromUtf8(b).ok
         THEN Fail([@ EXCEPT !.bytes = b], "receive", "Invalid UTF-8 in response body")
       ELSE [@ EXCEPT !.pc = "done", !.bytes = b,
               !.result = OkResult([status |-> calls[c].head, body |-> StringFromUtf8(b).text])]]
  /\ UNCHANGED <<conns, diag>>
  /\ UNCHANGED <<op, pc, requests, max_retries, attempt, range, validations, sends, elems, log, result, fx>>

\* the driver task of connection k ends with an error: eprintln!
DriverFail(k) ==
  /\ k \in 1..Len(conns)
  /\ conns[k].driver = "running"
  /\ conns' = [conns EXCEPT ![k].driver = "failed"]
  /\ diag' = diag \cup { [conn |-> k,
                        delivered |-> \A c \in conns[k].owners : calls[c].pc = "done"] }
  /\ calls' = OnDriverError(calls, conns[k].owners)
  /\ UNCHANGED <<op, pc, requests, max_retries, attempt, range, validations, sends, elems, log, result, fx>>

\* the driver task of connection k ends without one, its sender dropped
DriverFinish(k) ==
  /\ k \in 1..Len(conns)
  /\ conns[k].driver = "running"
  /\ \A c \in conns[k].owners : calls[c].pc = "done"
  /\ conns' = [conns EXCEPT ![k].driver = "finished"]
  /\ UNCHANGED <<calls, diag>>
  /\ UNCHANGED <<op, pc, requests, max_retries, attempt, range, validations, sends, elems, log, result, fx>>

TransportNext ==
  \/ \E request \in TransportRequests : CallSend(request)
  \/ \E c \in 1..MaxCalls, ok \in BOOLEAN, tls_ok \in BOOLEAN : TcpConnect(c, ok, tls_ok)
  \/ \E c \in 1..MaxCalls, ok \in BOOLEAN : TlsConnect(c, ok)
  \/ \E c \in 1..MaxCalls, ok \in BOOLEAN : HttpHandshake(c, ok)
  \/ \E c \in 1..MaxCalls, o \in Statuses \cup { 0 } : WireSendReturn(c, o)
  \/ \E c \in 1..MaxCalls, ok \in BOOLEAN, b \in BodyBytes : CollectBody(c, ok, b)
  \/ \E k \in 1..MaxCalls : DriverFail(k)
  \/ \E k \in 1..MaxCalls : DriverFinish(k)

TransportSpec == Init /\ [][TransportNext]_vars

\* create_connection up to the TCP connect, over the URIs with ports
ResolveNext ==
  \/ \E request \in ResolveRequests : CallSend(request)
  \/ \E c \in 1..MaxCalls, ok \in BOOLEAN, tls_ok \in BOOLEAN : TcpConnect(c, ok, tls_ok)

ResolveSpec == Init /\ [][ResolveNext]_vars

\* ------------------------------------------------------------------- C12
\* C12: the wire request built from a Request has the stored text of the
\* body as its body and an entry content-type: application/json whenever
\* the Request has a body, also when the caller gave a Content-Type of its
\* own; a Request with no body and no Content-Type of the caller gives an
\* empty wire body and no content-type: application/json entry.
C12_BodyAndContentType ==
  (fx.op = "to_hyper_request" /\ fx.out.ok) =>
    LET req == fx.request
        wire == HeaderMapIter(fx.out.headers)
        json == << CONTENT_TYPE, ApplicationJson >>
        callerCT == \E k \in 1..Len(req.headers) : LowerText(req.headers[k][1]) = CONTENT_TYPE
    IN /\ req.body.some => fx.out.body = req.body.text
       /\ req.body.some => \E k \in 1..Len(wire) : wire[k] = json
       /\ (~req.body.some /\ ~callerCT) =>
            /\ fx.out.body = <<>>
            /\ \A k \in 1..Len(wire) : wire[k] # json

\* a Request with a body and the caller's Content-Type: text/plain was
\* translated, and the wire request carries both content types
C12_Witness ==
  /\ fx.op = "to_hyper_request"
  /\ fx.out.ok
  /\ fx.request.body = SomeBody(<<"{", "}">>)
  /\ fx.request.headers = << <<ContentTypeName, TextPlain>> >>
  /\ fx.out.body = <<"{", "}">>
  /\ \E k \in 1..Len(fx.out.headers) :
       /\ fx.out.headers[k].name = CONTENT_TYPE
       /\ fx.out.headers[k].values = << ApplicationJson, TextPlain >>

C14_BuilderKeepsHeaders ==
  (fx.op = "build" /\ fx.out.ok) =>
    fx.out.request.headers =
      [k \in 1..Len(fx.raw_headers) |->
         << Trim(SplitN2(fx.raw_headers[k])[1]), Trim(SplitN2(fx.raw_headers[k])[2]) >>]

\* ------------------------------------------------------------------- C13
\* C13: the steps a transport send has entered are always a beginning of
\* resolve, connect, TLS handshake, HTTP handshake, send, receive, with the
\* TLS handshake in that list exactly when the URL scheme is https; a send
\* that returned an error entered no step after the one that failed, and a
\* send that returned a response entered them all and returns the status
\* and the body bytes it received.
C13_StepsInOrder ==
  \A c \in 1..Len(calls) :
    LET call == calls[c]
        order == IF call.request.url.scheme = SchemeHttps
                   THEN <<"resolve", "connect", "tls", "handshake", "send", "receive">>
                   ELSE <<"resolve", "connect", "handshake", "send", "receive">>
        last == call.steps[Len(call.steps)]
    IN /\ Len(call.steps) >= 1
       /\ Len(call.steps) <= Len(order)
       /\ call.steps = SubSeq(order, 1, Len(call.steps))
       /\ (call.pc = "done") = (call.result.tag # "None")
       /\ call.result.tag = "Err" =>
            last = (CASE call.failed_at = "tls_connector" -> "connect"
                      [] call.failed_at = "build" -> "handshake"
                      [] OTHER -> call.failed_at)
       /\ call.result.tag = "Ok" =>
            /\ call.steps = order
            /\ call.result.val = [status |-> call.head, body |-> call.bytes]

\* a send to https://a went through all six steps and returned the
\* response it received, and a send to http://a failed in the HTTP handshake
C13_Witness ==
  \E c, d \in 1..Len(calls) :
    /\ calls[c].request.url = HttpsA
    /\ calls[c].steps = <<"resolve", "connect", "tls", "handshake", "send", "receive">>
    /\ calls[c].result = OkResult([status |-> 200, body |-> <<195, 169>>])
    /\ conns[calls[c].conn].tls
    /\ calls[d].request.url = HttpA
    /\ calls[d].failed_at = "handshake"
    /\ calls[d].steps = <<"resolve", "connect", "handshake">>

C18_ExplicitPortElseDefault ==
  \A c \in 1..Len(calls) :
    LET call == calls[c]
        a == call.request.url.authority
        text == DropFirst(a, LastColon(a))
        explicit == LastColon(a) > 0 /\ text # <<>> /\ \A k \in 1..Len(text) : text[k] \in Digits
    IN IF a = <<>>
         THEN /\ call.result.tag = "Err"
              /\ call.steps = <<"resolve">>
              /\ call.conn = 0
         ELSE call.port = (IF explicit THEN DigitsValue(text)
                           ELSE IF call.request.url.scheme = SchemeHttps THEN 443
                           ELSE 80)

\* ------------------------------------------------------------------- C20
\* C20: a step in which a connection's driver task ends with an error
\* leaves every send that has returned as it is, result included, and adds
\* the connection to the diagnostics printed.
C20_DriverErrorOnlyPrinted ==
  [][\A k \in 1..Len(conns) :
       (conns[k].driver = "running" /\ conns'[k].driver = "failed") =>
         /\ \A c \in 1..Len(calls) : calls[c].pc = "done" => calls'[c] = calls[c]
         /\ \E d \in diag' : d.conn = k]_vars

\* a send returned a response, and the driver task of its connection
\* failed afterwards
C20_Witness ==
  \E c \in 1..Len(calls) :
    /\ calls[c].result.tag = "Ok"
    /\ conns[calls[c].conn].driver = "failed"
    /\ [conn |-> calls[c].conn, delivered |-> TRUE] \in diag

\* ------------------------------------------------------------------- C21
\* C21: for every max_retries, the largest value of its type included, and
\* every sequence of transport outcomes, send_with_retry is either awaiting
\* the send of an attempt no greater than max_retries or has returned a
\* response or an error from inside the loop; it never executes the
\* unreachable!() after the loop, and it never makes more than
\* max_retries + 1 transport calls.
C21_LoopAlwaysReturns ==
  op = "send_with_retry" =>
    /\ pc # "unreachable"
    /\ pc \in { "retry_await", "done" }
    /\ Len(sends) <= max_retries + 1
    /\ pc = "done" => result.tag \in { "Ok", "Err" }
    /\ pc = "retry_await" =>
         /\ result = NoResult
         /\ attempt <= max_retries
         /\ Len(sends) = attempt + 1

\* with max_retries the largest value of its type every attempt failed:
\* the range is exhausted, and the call returned the last error from
\* inside the loop
C21_Witness ==
  /\ op = "send_with_retry"
  /\ max_retries = AttemptMax
  /\ range = [start |-> AttemptMax, end |-> AttemptMax, exhausted |-> TRUE]
  /\ attempt = AttemptMax
  /\ Len(sends) = AttemptMax + 1
  /\ pc = "done"
  /\ result.tag = "Err"

\* ------------------------------------------------------------------- C22
\* C22: send_request(request) and send_with_retry(request, 0) behave as one
\* and the same function of the request and of the transport's outcome:
\* each validates once; when validation fails it makes no transport call
\* and returns the validation error; otherwise it makes exactly one
\* transport call, returns when that call returns, and returns that call's
\* response or error.
C22_RetryZeroIsSendRequest ==
  (op = "send_request" \/ (op = "send_with_retry" /\ max_retries = 0)) =>
    /\ validations = 1
    /\ pc \in { "request_await", "retry_await", "done" }
    /\ IF ~validate(requests[1]).ok
         THEN /\ pc = "done"
              /\ sends = <<>>
              /\ result = ErrResult(ValidationError(validate(requests[1]).msg, 1))
         ELSE /\ Len(sends) = 1
              /\ sends[1].req = 1
              /\ (pc = "done") = (sends[1].st # "inflight")
              /\ pc = "done" =>
                   /\ sends[1].st \in { "ok", "err" }
                   /\ result = sends[1].out
                   /\ result \in { SendResult(1, 1, o) : o \in Outcomes }
              /\ pc # "done" => result = NoResult

\* send_with_retry(request, 0) made one transport call, which failed, and
\* returned that call's error
C22_Witness ==
  /\ op = "send_with_retry"
  /\ max_retries = 0
  /\ pc = "done"
  /\ Len(sends) = 1
  /\ sends[1].st = "err"
  /\ result = ErrResult(TransportError(1))

\* ------------------------------------------------------------------- C23
\* C23: a send whose wire request cannot be built returns the building
\* error only after its connection is set up: it has then entered the TCP
\* connect, the TLS handshake when the URL is https, and the HTTP
\* handshake, all with success, and the driver task of its connection has
\* been spawned; it returns no other error past the HTTP handshake, and at
\* no time is a request sent on its connection.
C23_BuildErrorAfterConnection ==
  \A c \in 1..Len(calls) :
    LET call == calls[c]
        https == call.request.url.scheme = SchemeHttps
        entered == { call.steps[i] : i \in 1..Len(call.steps) }
    IN /\ call.failed_at = "build" =>
            /\ call.request \in Unbuildable
            /\ call.steps = (IF https THEN <<"resolve", "connect", "tls", "handshake">>
                                      ELSE <<"resolve", "connect", "handshake">>)
            /\ call.conn \in 1..Len(conns)
            /\ conns[call.conn].owners = { c }
            /\ conns[call.conn].tls = https
            /\ conns[call.conn].driver # "none"
            /\ conns[call.conn].sent = 0
       /\ call.request \in Unbuildable =>
            /\ "send" \notin entered
            /\ call.result.tag # "Ok"
            /\ call.conn # 0 => conns[call.conn].sent = 0
            /\ (call.pc = "done" /\ "handshake" \in entered /\ call.failed_at # "handshake")
                 => call.failed_at = "build"

\* a send to https://a whose header value has a line feed returned the
\* building error, its connection set up with TLS, its driver task spawned
\* and no request sent
C23_Witness ==
  \E c \in 1..Len(calls) :
    /\ calls[c].request.url = HttpsA
    /\ calls[c].request.headers = << <<XA, <<"1", "\n">>>> >>
    /\ calls[c].failed_at = "build"
    /\ calls[c].result = ClientErr("Failed to build HTTP request")
    /\ conns[calls[c].conn].tls
    /\ conns[calls[c].conn].driver = "running"
    /\ conns[calls[c].conn].sent = 0

====
